---- MODULE Spec2Model ----
(***************************************************************************)
(* Model of src/src/main.rs: a winit application that creates a window and *)
(* an egui-winit clipboard (a background worker thread holding the raw     *)
(* display pointer of the window), runs the event loop until a close       *)
(* request or a one second timer, and then drops App field by field.      *)
(*                                                                         *)
(* Option<T> fields are sequences of length at most one: <<>> is None and  *)
(* <<x>> is Some(x).  A println! prints, which leaves the state alone, or  *)
(* panics when stdout is closed.  A panic after App exists unwinds main,   *)
(* which drops App the same way, field by field, before the process ends.  *)
(***************************************************************************)
EXTENDS Integers, Sequences, FiniteSets, TLC

\* ---- bounds ----
MaxTime == 4
TicksPerSec == 2

\* ---- program constants ----
AutoCloseSecs == 1
Threshold == AutoCloseSecs * TicksPerSec

None == <<>>
Some(x) == <<x>>

\* RawDisplayHandle variants seen by resumed; "Unavailable" is display_handle() = Err
Platforms == {"Wayland", "Xlib", "Unavailable"}
Events == {"CloseRequested", "Resized"}
\* Declaration order of the fields of App: Rust drops fields in this order
FieldOrder == <<"window", "clipboard", "start_time">>
\* The order of the NOTE in App: `window` and `clipboard` swapped
SwappedOrder == <<"clipboard", "window", "start_time">>

VARIABLES
    pc,          \* position of the main thread
    platform,    \* the display server the process runs against
    fields,      \* declaration order of App's fields
    panicking,   \* main is unwinding from a panic
    dropIdx,     \* next field of App to drop
    window,      \* App.window
    clipboard,   \* App.clipboard
    start_time,  \* App.start_time
    now,         \* the monotonic clock (Instant), in ticks
    display,     \* the platform display connection: "none", "valid", "invalid"
    worker,      \* the clipboard's background thread: "none", "running", "stopped"
    workerPc,    \* where the background thread is in its loop: "wait", "dispatch"
    stopFlag,    \* the clipboard asked its thread to exit
    exiting,     \* event_loop.exit() has been called
    controlFlow  \* the event loop's ControlFlow

vars == <<pc, platform, fields, panicking, dropIdx, window, clipboard, start_time,
          now, display, worker, workerPc, stopFlag, exiting, controlFlow>>

appVars == <<window, clipboard, start_time>>
workerVars == <<worker, workerPc, stopFlag>>

TypeOK ==
    /\ pc \in {"start", "loop", "exited", "drop", "join", "done", "panicked", "segfault"}
    /\ platform \in Platforms
    /\ fields \in {FieldOrder, SwappedOrder}
    /\ panicking \in BOOLEAN
    /\ dropIdx \in 1..(Len(fields) + 1)
    /\ window \in {None, Some("w")}
    /\ clipboard \in {None, Some("Wayland")}
    /\ start_time \in {None} \cup {Some(t) : t \in 0..MaxTime}
    /\ now \in 0..MaxTime
    /\ display \in {"none", "valid", "invalid"}
    /\ worker \in {"none", "running", "stopped"}
    /\ workerPc \in {"wait", "dispatch"}
    /\ stopFlag \in BOOLEAN
    /\ exiting \in BOOLEAN
    /\ controlFlow \in {"Wait", "Poll"}

\* main, up to the construction of App: nothing exists yet
Init ==
    /\ pc = "start"
    /\ platform \in Platforms
    /\ fields = FieldOrder
    /\ panicking = FALSE
    /\ dropIdx = 1
    /\ window = None
    /\ clipboard = None
    /\ start_time = None
    /\ now = 0
    /\ display = "none"
    /\ worker = "none"
    /\ workerPc = "wait"
    /\ stopFlag = FALSE
    /\ exiting = FALSE
    /\ controlFlow = "Wait"

\* the same program with the fields of App declared in the swapped order
InitSwapped ==
    /\ pc = "start"
    /\ platform \in Platforms
    /\ fields = SwappedOrder
    /\ panicking = FALSE
    /\ dropIdx = 1
    /\ window = None
    /\ clipboard = None
    /\ start_time = None
    /\ now = 0
    /\ display = "none"
    /\ worker = "none"
    /\ workerPc = "wait"
    /\ stopFlag = FALSE
    /\ exiting = FALSE
    /\ controlFlow = "Wait"

\* the println! banner, EventLoop::new().unwrap() and App { None, None, None }:
\* the event loop connects to the display server, or main panics (a println!
\* or the unwrap) with nothing to drop
EventLoopNew ==
    /\ pc = "start"
    /\ \E ok \in BOOLEAN :
         IF ok
         THEN /\ pc' = "loop"
              /\ display' = "valid"
         ELSE /\ pc' = "panicked"
              /\ display' = display
    /\ UNCHANGED <<platform, fields, panicking, dropIdx, appVars, now,
                   workerVars, exiting, controlFlow>>

\* The clock advances while the event loop runs
Tick ==
    /\ pc = "loop"
    /\ now < MaxTime
    /\ now' = now + 1
    /\ UNCHANGED <<pc, platform, fields, panicking, dropIdx, appVars, display,
                   workerVars, exiting, controlFlow>>

\* raw_display = window.display_handle().ok().map(|h| h.as_raw())
RawDisplay == IF platform = "Unavailable" THEN None ELSE Some(platform)

\* if let Some(RawDisplayHandle::Wayland(_)) = raw_display
IsWayland_AnyHandle(raw) == raw # None
IsWayland(raw) == raw = Some("Wayland")

\* event_loop.run_app(&mut app) consumes the EventLoop: it is destroyed when
\* run_app returns and when a panic of a handler unwinds through run_app.  A
\* window that is held keeps the display alive, the display is destroyed with
\* the window; with no window the display may go with the event loop
DisplayAfterLoop == IF window # None THEN {display} ELSE {display, "invalid"}

\* what a call of resumed that finds no window can run into
ResumedOutcomes == {"ok", "create_fails", "print_fails"}

\* App::resumed
Resumed_NoGuard ==
    /\ pc = "loop"
    /\ IF TRUE
       THEN \E outcome \in ResumedOutcomes :
              CASE outcome = "create_fails" ->
                     \* create_window(..).unwrap() panics: main unwinds and drops app
                     /\ pc' = "drop"
                     /\ panicking' = TRUE
                     /\ display' \in DisplayAfterLoop
                     /\ UNCHANGED <<appVars, worker, workerPc, controlFlow>>
                [] outcome = "print_fails" ->
                     \* println! panics after the clipboard, if any, was stored and
                     \* before the window is: unwinding destroys the local window
                     /\ IF IsWayland(RawDisplay)
                        THEN /\ clipboard' = Some("Wayland")
                             /\ worker' = "running"
                             /\ workerPc' = "wait"
                        ELSE UNCHANGED <<clipboard, worker, workerPc>>
                     /\ display' = "invalid"
                     /\ pc' = "drop"
                     /\ panicking' = TRUE
                     /\ UNCHANGED <<window, start_time, controlFlow>>
                [] outcome = "ok" ->
                     /\ IF IsWayland(RawDisplay)
                        THEN /\ clipboard' = Some("Wayland")
                             /\ worker' = "running"
                             /\ workerPc' = "wait"
                        ELSE UNCHANGED <<clipboard, worker, workerPc>>
                     /\ window' = Some("w")
                     /\ start_time' = Some(now)
                     /\ controlFlow' = "Poll"
                     /\ UNCHANGED <<pc, panicking, display>>
       ELSE UNCHANGED <<pc, panicking, display, appVars, worker, workerPc, controlFlow>>
    /\ UNCHANGED <<platform, fields, dropIdx, now, stopFlag, exiting>>

Resumed_WindowNotStored ==
    /\ pc = "loop"
    /\ IF window = None
       THEN \E outcome \in ResumedOutcomes :
              CASE outcome = "create_fails" ->
                     \* create_window(..).unwrap() panics: main unwinds and drops app
                     /\ pc' = "drop"
                     /\ panicking' = TRUE
                     /\ display' \in DisplayAfterLoop
                     /\ UNCHANGED <<appVars, worker, workerPc, controlFlow>>
                [] outcome = "print_fails" ->
                     \* println! panics after the clipboard, if any, was stored and
                     \* before the window is: unwinding destroys the local window
                     /\ IF IsWayland(RawDisplay)
                        THEN /\ clipboard' = Some("Wayland")
                             /\ worker' = "running"
                             /\ workerPc' = "wait"
                        ELSE UNCHANGED <<clipboard, worker, workerPc>>
                     /\ display' = "invalid"
                     /\ pc' = "drop"
                     /\ panicking' = TRUE
                     /\ UNCHANGED <<window, start_time, controlFlow>>
                [] outcome = "ok" ->
                     /\ IF IsWayland(RawDisplay)
                        THEN /\ clipboard' = Some("Wayland")
                             /\ worker' = "running"
                             /\ workerPc' = "wait"
                        ELSE UNCHANGED <<clipboard, worker, workerPc>>
                     \* the window is not stored: it is destroyed when resumed returns
                     /\ window' = window
                     /\ display' = "invalid"
                     /\ start_time' = Some(now)
                     /\ controlFlow' = "Poll"
                     /\ UNCHANGED <<pc, panicking>>
       ELSE UNCHANGED <<pc, panicking, display, appVars, worker, workerPc, controlFlow>>
    /\ UNCHANGED <<platform, fields, dropIdx, now, stopFlag, exiting>>

Resumed ==
    /\ pc = "loop"
    /\ IF window = None
       THEN \E outcome \in ResumedOutcomes :
              CASE outcome = "create_fails" ->
                     \* create_window(..).unwrap() panics: main unwinds and drops app
                     /\ pc' = "drop"
                     /\ panicking' = TRUE
                     /\ display' \in DisplayAfterLoop
                     /\ UNCHANGED <<appVars, worker, workerPc, controlFlow>>
                [] outcome = "print_fails" ->
                     \* println! panics after the clipboard, if any, was stored and
                     \* before the window is: unwinding destroys the local window
                     /\ IF IsWayland(RawDisplay)
                        THEN /\ clipboard' = Some("Wayland")
                             /\ worker' = "running"
                             /\ workerPc' = "wait"
                        ELSE UNCHANGED <<clipboard, worker, workerPc>>
                     /\ display' = "invalid"
                     /\ pc' = "drop"
                     /\ panicking' = TRUE
                     /\ UNCHANGED <<window, start_time, controlFlow>>
                [] outcome = "ok" ->
                     /\ IF IsWayland(RawDisplay)
                        THEN /\ clipboard' = Some("Wayland")
                             /\ worker' = "running"
                             /\ workerPc' = "wait"
                        ELSE UNCHANGED <<clipboard, worker, workerPc>>
                     /\ window' = Some("w")
                     /\ start_time' = Some(now)
                     /\ controlFlow' = "Poll"
                     /\ UNCHANGED <<pc, panicking, display>>
       ELSE UNCHANGED <<pc, panicking, display, appVars, worker, workerPc, controlFlow>>
    /\ UNCHANGED <<platform, fields, dropIdx, now, stopFlag, exiting>>

\* start.elapsed() >= Duration::from_secs(1)
Elapsed(start) == now - start

\* App::about_to_wait
AboutToWait ==
    /\ pc = "loop"
    /\ IF start_time # None /\ Elapsed(start_time[1]) >= Threshold
       THEN \E printed \in BOOLEAN :
              IF printed
              THEN /\ exiting' = TRUE
                   /\ UNCHANGED <<pc, panicking, display>>
              ELSE \* println! panics before event_loop.exit()
                   /\ pc' = "drop"
                   /\ panicking' = TRUE
                   /\ display' \in DisplayAfterLoop
                   /\ exiting' = exiting
       ELSE UNCHANGED <<pc, panicking, display, exiting>>
    /\ UNCHANGED <<platform, fields, dropIdx, appVars, now, workerVars, controlFlow>>

\* App::window_event: the handler does not look at the fields of App
WindowEvent_ReleasesOnClose(event) ==
    /\ pc = "loop"
    /\ IF event = "CloseRequested"
       THEN \E printed \in BOOLEAN :
              IF printed
              THEN /\ exiting' = TRUE
                   /\ window' = None
                   /\ UNCHANGED <<pc, panicking, display>>
              ELSE /\ pc' = "drop"
                   /\ panicking' = TRUE
                   /\ display' \in DisplayAfterLoop
                   /\ UNCHANGED <<exiting, window>>
       ELSE UNCHANGED <<pc, panicking, display, exiting, window>>
    /\ UNCHANGED <<platform, fields, dropIdx, clipboard, start_time, now,
                   workerVars, controlFlow>>

WindowEvent(event) ==
    /\ pc = "loop"
    /\ IF event = "CloseRequested"
       THEN \E printed \in BOOLEAN :
              IF printed
              THEN /\ exiting' = TRUE
                   /\ UNCHANGED <<pc, panicking, display>>
              ELSE \* println! panics before event_loop.exit()
                   /\ pc' = "drop"
                   /\ panicking' = TRUE
                   /\ display' \in DisplayAfterLoop
                   /\ exiting' = exiting
       ELSE UNCHANGED <<pc, panicking, display, exiting>>
    /\ UNCHANGED <<platform, fields, dropIdx, appVars, now, workerVars, controlFlow>>

\* event_loop.run_app(&mut app) returns Ok(()), after an exit request or
\* without one
RunAppReturn ==
    /\ pc = "loop"
    /\ pc' = "exited"
    /\ display' \in DisplayAfterLoop
    /\ UNCHANGED <<platform, fields, panicking, dropIdx, appVars, now,
                   workerVars, exiting, controlFlow>>

\* run_app returns Err and .unwrap() panics: main unwinds and drops app
RunAppFail ==
    /\ pc = "loop"
    /\ pc' = "drop"
    /\ panicking' = TRUE
    /\ display' \in DisplayAfterLoop
    /\ UNCHANGED <<platform, fields, dropIdx, appVars, now,
                   workerVars, exiting, controlFlow>>

\* the two println! after run_app, either of which can panic; then app goes
\* out of scope, or main unwinds, and app is dropped
MainEpilogue ==
    /\ pc = "exited"
    /\ pc' = "drop"
    /\ \E printed \in BOOLEAN : panicking' = ~printed
    /\ UNCHANGED <<platform, fields, dropIdx, appVars, now, display,
                   workerVars, exiting, controlFlow>>

CurrentField == IF dropIdx <= Len(fields) THEN fields[dropIdx] ELSE "end"

\* drop of App.window: the last Arc<Window> goes away and the window and
\* its Wayland display are destroyed
DropWindow_KeepsDisplay ==
    /\ pc = "drop"
    /\ CurrentField = "window"
    /\ window' = None
    /\ dropIdx' = dropIdx + 1
    /\ UNCHANGED <<pc, platform, fields, panicking, clipboard, start_time, now, display,
                   workerVars, exiting, controlFlow>>

DropWindow ==
    /\ pc = "drop"
    /\ CurrentField = "window"
    /\ window' = None
    /\ display' = IF window # None THEN "invalid" ELSE display
    /\ dropIdx' = dropIdx + 1
    /\ UNCHANGED <<pc, platform, fields, panicking, clipboard, start_time, now,
                   workerVars, exiting, controlFlow>>

\* drop of App.clipboard, first half: tell the background thread to exit
DropClipboardSignal ==
    /\ pc = "drop"
    /\ CurrentField = "clipboard"
    /\ IF clipboard = None
       THEN /\ dropIdx' = dropIdx + 1
            /\ UNCHANGED <<pc, stopFlag>>
       ELSE /\ stopFlag' = TRUE
            /\ pc' = "join"
            /\ dropIdx' = dropIdx
    /\ UNCHANGED <<platform, fields, panicking, appVars, now, display,
                   worker, workerPc, exiting, controlFlow>>

\* drop of App.clipboard, second half: join the background thread
DropClipboardJoin_NoWait ==
    /\ pc = "join"
    /\ clipboard' = None
    /\ pc' = "drop"
    /\ dropIdx' = dropIdx + 1
    /\ UNCHANGED <<platform, fields, panicking, window, start_time, now, display,
                   workerVars, exiting, controlFlow>>

DropClipboardJoin ==
    /\ pc = "join"
    /\ worker = "stopped"
    /\ clipboard' = None
    /\ pc' = "drop"
    /\ dropIdx' = dropIdx + 1
    /\ UNCHANGED <<platform, fields, panicking, window, start_time, now, display,
                   workerVars, exiting, controlFlow>>

\* drop of App.start_time
DropStartTime ==
    /\ pc = "drop"
    /\ CurrentField = "start_time"
    /\ start_time' = None
    /\ dropIdx' = dropIdx + 1
    /\ UNCHANGED <<pc, platform, fields, panicking, window, clipboard, now, display,
                   workerVars, exiting, controlFlow>>

\* every field is dropped: main returns, or the panic ends the process
MainEnd ==
    /\ pc = "drop"
    /\ CurrentField = "end"
    /\ pc' = IF panicking THEN "panicked" ELSE "done"
    /\ UNCHANGED <<platform, fields, panicking, dropIdx, appVars, now, display,
                   workerVars, exiting, controlFlow>>

ProcessAlive == pc \in {"loop", "exited", "drop", "join"}

\* background thread: a request or a display event wakes it up
WorkerWake ==
    /\ ProcessAlive
    /\ worker = "running"
    /\ workerPc = "wait"
    /\ ~stopFlag
    /\ workerPc' = "dispatch"
    /\ UNCHANGED <<pc, platform, fields, panicking, dropIdx, appVars, now, display,
                   worker, stopFlag, exiting, controlFlow>>

\* background thread: uses the display.  With the display destroyed this is
\* a use after free: the process is killed by SIGSEGV or goes on
WorkerDispatch ==
    /\ ProcessAlive
    /\ worker = "running"
    /\ workerPc = "dispatch"
    /\ IF display = "valid"
       THEN /\ workerPc' = "wait"
            /\ pc' = pc
       ELSE \E crash \in BOOLEAN :
              IF crash
              THEN /\ pc' = "segfault"
                   /\ workerPc' = workerPc
              ELSE /\ workerPc' = "wait"
                   /\ pc' = pc
    /\ UNCHANGED <<platform, fields, panicking, dropIdx, appVars, now, display,
                   worker, stopFlag, exiting, controlFlow>>

\* background thread: sees the exit request and returns
WorkerExit ==
    /\ ProcessAlive
    /\ worker = "running"
    /\ workerPc = "wait"
    /\ stopFlag
    /\ worker' = "stopped"
    /\ UNCHANGED <<pc, platform, fields, panicking, dropIdx, appVars, now, display,
                   workerPc, stopFlag, exiting, controlFlow>>

Next ==
    \/ EventLoopNew
    \/ Tick
    \/ Resumed
    \/ AboutToWait
    \/ \E event \in Events : WindowEvent(event)
    \/ RunAppReturn
    \/ RunAppFail
    \/ MainEpilogue
    \/ DropWindow
    \/ DropClipboardSignal
    \/ DropClipboardJoin
    \/ DropStartTime
    \/ MainEnd
    \/ WorkerWake
    \/ WorkerDispatch
    \/ WorkerExit

Spec == Init /\ [][Next]_vars

\* the program with the swapped field order
SpecSwapped == InitSwapped /\ [][Next]_vars

\* the program left to its timer while the event loop keeps polling: no
\* window event arrives, run_app does not fail and it returns only once
\* about_to_wait has called event_loop.exit()
PollingNext ==
    \/ EventLoopNew
    \/ Tick
    \/ Resumed
    \/ AboutToWait
    \/ (exiting /\ RunAppReturn)
    \/ MainEpilogue
    \/ DropWindow
    \/ DropClipboardSignal
    \/ DropClipboardJoin
    \/ DropStartTime
    \/ MainEnd
    \/ WorkerWake
    \/ WorkerDispatch
    \/ WorkerExit

\* the clock advances, and with ControlFlow::Poll the event loop keeps
\* calling about_to_wait
PollingSpec ==
    /\ Init
    /\ [][PollingNext]_vars
    /\ WF_vars(Tick)
    /\ WF_vars(AboutToWait /\ controlFlow = "Poll")

(***************************************************************************)
(* Vocabulary of the specification, read on the program                    *)
(***************************************************************************)

\* the dependents registered against the display: the clipboards holding its pointer
Dependents == IF clipboard # None THEN {"clipboard"} ELSE {}

\* the step that drops a held window, which invalidates the display (invalidate_root)
InvalidateRootStep ==
    /\ pc = "drop"
    /\ CurrentField = "window"
    /\ window # None
    /\ dropIdx' = dropIdx + 1

\* the fields of App that the drop of App has already gone through
Dropped == {fields[i] : i \in 1..(dropIdx - 1)}

\* the step of resumed that returns normally having created the window
ResumedCreatedStep == pc = "loop" /\ window = None /\ window' # None

\* the ApplicationController states, read on the main thread
Ctrl ==
    IF pc \in {"done", "panicked", "segfault"} THEN "Terminated"
    ELSE IF pc \in {"exited", "drop", "join"} \/ exiting THEN "ShuttingDown"
    ELSE IF window # None THEN "Running"
    ELSE "Uninitialized"

CtrlRank(c) ==
    CASE c = "Uninitialized" -> 0
      [] c = "Running" -> 1
      [] c = "ShuttingDown" -> 2
      [] c = "Terminated" -> 3

(***************************************************************************)
(* Claims                                                                  *)
(***************************************************************************)

\* C1: whenever the clipboard's worker thread is running, the display it
\* references is still valid.
C1_RunningImpliesDisplayValid == worker = "running" => display = "valid"

\* C2: invalidate_root succeeds if and only if the dependent set is empty at
\* the moment of the call: the step that drops the window invalidates the
\* display exactly when no clipboard is registered against it.
C2_InvalidateIffNoDependents ==
    [][InvalidateRootStep => (display' = "invalid" <=> Dependents = {})]_vars

\* C3: invalidating the root of a started dependent that was not stopped
\* changes nothing: the dependent is still running, the root is still valid
\* and the dependent set is unchanged.
C3_InvalidateWithoutStopChangesNothing ==
    [][(InvalidateRootStep /\ worker = "running" /\ ~stopFlag)
         => (display' = "valid" /\ worker' = "running" /\ Dependents' = Dependents)]_vars

\* C4: every dependent is fully torn down (worker stopped, clipboard
\* released) strictly before the display it depends on is invalidated.
C4_TeardownBeforeInvalidate ==
    display = "invalid" => (clipboard = None /\ worker # "running")

\* C6: a register_dependent and an invalidate_root on the same root never
\* both succeed: no state has a clipboard whose registration against the
\* display stands while that display has been invalidated.
C6_RegisterAndInvalidateExclusive ==
    ~(Dependents # {} /\ display = "invalid")

C9_InvalidatedOnceWithNoDependents ==
    [][/\ display = "invalid" => display' = "invalid"
       /\ (display = "valid" /\ display' # "valid")
          => (display' = "invalid" /\ Dependents = {})]_vars

\* C10: the controller only moves forward through Uninitialized, Running,
\* ShuttingDown, Terminated, and after an exit request in Running the
\* display is invalidated only once the clipboard has been stopped and
\* released, and the shutdown is not ended by a crash.
C10_OrderedShutdown ==
    [][/\ CtrlRank(Ctrl') >= CtrlRank(Ctrl)
       /\ (exiting /\ display = "valid" /\ display' = "invalid")
          => (Ctrl = "ShuttingDown" /\ clipboard = None /\ worker # "running")
       /\ (exiting /\ Ctrl' = "Terminated") => pc' # "segfault"]_vars

\* C11: the invalidation made during shutdown never fails: the drop of the
\* window is never refused, whatever is registered against the display, and
\* the step that drops a held window always ends with the window released
\* and the display invalid, the drop of App going on.
C11_ShutdownInvalidateNeverFails ==
    /\ []((pc = "drop" /\ CurrentField = "window") => ENABLED DropWindow)
    /\ [][InvalidateRootStep
            => (window' = None /\ display' = "invalid" /\ pc' = "drop"
                /\ panicking' = panicking)]_vars

\* C11 witness: after an exit request the shutdown has invalidated the
\* display, with a clipboard still registered against it
C11_Witness ==
    /\ exiting /\ ~panicking /\ pc = "drop" /\ "window" \in Dropped
    /\ window = None /\ display = "invalid" /\ clipboard # None

\* C12: once stop has been called (the clipboard told its worker to exit),
\* stop ends with the worker stopped: the process is never killed while the
\* stop is under way or after it.
C12_StopEndsWithWorkerStopped == stopFlag => pc # "segfault"

\* C13: stop signals, joins, then unregisters: the clipboard is released
\* only by the step that follows the join of a stopped worker, after the
\* stop signal, so whenever the worker thread is running its clipboard is
\* still held.
C13_UnregisterOnlyAfterJoin ==
    /\ [](worker = "running" => clipboard # None)
    /\ [][(clipboard # None /\ clipboard' = None)
            => (stopFlag /\ worker = "stopped" /\ worker' = "stopped")]_vars

\* C13 witness: stop is under way, the worker has not exited yet and the
\* clipboard is still held
C13_Witness ==
    pc = "join" /\ stopFlag /\ worker = "running" /\ clipboard # None

\* C14: when App is dropped with both fields set, the window and its display
\* are released first, with the clipboard still held and its worker still
\* running, and the clipboard is never released while the window is held.
C14_WindowReleasedBeforeClipboard ==
    /\ [][(pc = "drop" /\ window # None /\ clipboard # None /\ dropIdx' # dropIdx)
            => /\ window' = None /\ display' = "invalid"
               /\ clipboard' = clipboard /\ worker' = "running"]_vars
    /\ []((platform = "Wayland" /\ pc \in {"drop", "join", "done", "panicked"} /\ window # None)
            => clipboard # None)

\* C14 witness: the display is destroyed and the clipboard's worker thread is
\* running and using it
C14_Witness ==
    /\ window = None /\ display = "invalid" /\ clipboard # None
    /\ worker = "running" /\ workerPc = "dispatch"

\* C15: with clipboard declared before window, the clipboard and its worker
\* are released before the window: the display is only invalidated with the
\* clipboard released and the worker not running, and the process is never
\* killed by a use of the destroyed display.
C15_SwappedOrderIsSafe ==
    /\ [](display = "invalid" => (clipboard = None /\ worker \in {"none", "stopped"}))
    /\ [](pc # "segfault")
    /\ [][(window # None /\ window' = None) => (clipboard = None /\ ~("window" \in Dropped))]_vars

\* C20: the window is the last of the two to be dropped: a held window is
\* only released by the drop of App (here: of an App that created a
\* clipboard) after the clipboard field was dropped.
C20_WindowDroppedLast ==
    [][(pc = "drop" /\ window # None /\ window' = None /\ worker # "none")
         => "clipboard" \in Dropped]_vars

\* C16: when the platform is not Wayland the clipboard field stays empty, no
\* background thread exists and the process is never killed by a use of the
\* destroyed display.
C16_NoClipboardOffWayland ==
    platform # "Wayland"
      => /\ clipboard = None
         /\ worker = "none" /\ workerPc = "wait" /\ ~stopFlag
         /\ pc # "segfault"

\* C16 witness: off Wayland the program ran to the end of main, window and
\* display destroyed
C16_Witness ==
    platform # "Wayland" /\ pc = "done" /\ display = "invalid" /\ start_time = None

\* C17: once resumed has created the window and recorded a start time (one
\* that leaves the clock room for one second), then, the event loop polling
\* and time advancing, the exit of the event loop is eventually requested;
\* and about_to_wait never requests the exit before the window is created.
C17_AutoClose ==
    /\ \A t \in 0..MaxTime :
         (pc = "loop" /\ window # None /\ start_time = Some(t) /\ t + Threshold <= MaxTime)
           ~> exiting
    /\ [][(AboutToWait /\ exiting' # exiting) => window # None]_vars

\* C18: only the first resumed has an effect: while the loop runs, fields
\* that are set are never set again, they are set together from the empty
\* App, a worker thread is only ever spawned when none existed, and at
\* handler boundaries a present clipboard implies a present window.
C18_CreatedAtMostOnce ==
    /\ [][pc = "loop"
            => /\ window # None => UNCHANGED <<window, start_time, clipboard, worker>>
               /\ (window' # window \/ start_time' # start_time \/ clipboard' # clipboard)
                    => (window = None /\ start_time = None /\ clipboard = None
                        /\ worker = "none")]_vars
    /\ [][(worker' = "running" /\ worker # "running") => worker = "none"]_vars
    /\ [](pc \in {"loop", "exited"} => (clipboard # None => window # None))

\* C18 witness: window, start time and clipboard exist, time has passed
\* since they were created and the loop still delivers events
C18_Witness ==
    /\ pc = "loop" /\ window # None /\ clipboard # None /\ worker = "running"
    /\ start_time # None /\ now > start_time[1]

\* C19: a step of about_to_wait or window_event, the exit request included,
\* changes no field of App and does not stop the clipboard; once the window
\* is stored, the fields and the running clipboard stay as they are until the
\* drop of App begins, the return of run_app included; fields are only
\* released by the drop of App.
C19_HandlersKeepFields ==
    /\ [][(AboutToWait \/ \E event \in Events : WindowEvent(event) \/ exiting' # exiting)
            => UNCHANGED <<window, clipboard, start_time, worker, stopFlag>>]_vars
    /\ [][((pc = "loop" /\ window # None) \/ pc = "exited")
            => UNCHANGED <<window, clipboard, start_time, worker, stopFlag>>]_vars
    /\ []((pc = "exited" /\ clipboard # None)
            => (window # None /\ start_time # None /\ worker = "running" /\ ~stopFlag))
    /\ [][(\/ (window # None /\ window' = None)
           \/ (clipboard # None /\ clipboard' = None)
           \/ (start_time # None /\ start_time' = None)) => pc \in {"drop", "join"}]_vars

\* C19 witness: the event loop has exited on an exit request with window
\* and clipboard still held
C19_Witness ==
    pc = "exited" /\ exiting /\ window # None /\ clipboard # None

====
